---- MODULE Spec2Model ----
(***************************************************************************)
(* The rating engine of the CoGs leaderboard server: Rating.rebuild,       *)
(* Rating.update, Rating.reset, Performance.initialise and the session     *)
(* chain queries of src/Leaderboards/models.py, and the influence tree     *)
(* traversal of src/Leaderboards/models/session.py.                        *)
(*                                                                         *)
(* Floats are modelled in thirds of a TrueSkill point, so that the default *)
(* mu0 = 25 and sigma0 = 25/3 are the integers 75 and 25 and               *)
(* eta = mu - (mu0 / sigma0) * sigma is exact.                             *)
(***************************************************************************)
EXTENDS Integers, Sequences, FiniteSets, TLC

\* ---------------------------------------------------------------- bounds
NumPlayers == 4
NumGames == 2
NumSessions == 3

\* ------------------------------------------------------ program constants
\* TrueskillSettings.mu0 and sigma0 (defaults trueskill.MU, trueskill.SIGMA)
mu0 == 75
sigma0 == 25
\* django_generic_view_extensions.html.NEVER: a time before every session
NEVER == 0
\* TrueskillSettings.delta and the defaults of Game.trueskill_beta,
\* trueskill_tau and trueskill_p (trueskill.DELTA, BETA, TAU and
\* DRAW_PROBABILITY), each in a unit of its own that makes the default 1.
DELTA == 1
BETA == 1
TAU == 1
DRAW_PROBABILITY == 1

Players == 1..NumPlayers
Games == 1..NumGames
SessionIds == 1..NumSessions
\* The times of sessions and of the From argument.
Times == 1..NumSessions

\* Python's None where a game, a time or a session is expected (these are
\* all positive), and the absence of a row in a table.
None == 0
NoRow == [none |-> TRUE]

VARIABLES
    session,        \* the Session table with its Rank rows: pk -> row
    game,           \* the Game table: pk -> the TrueSkill settings of the game
    perf,           \* the Performance table: <<session pk, player>> -> row
    rating,         \* the Rating table: <<player, game>> -> row or NoRow
    backup,         \* the BackupRating table: <<player, game>> -> row or NoRow
    bypass_admin,   \* the class attribute Rating.__bypass_admin__
    pc,             \* where Rating.rebuild is: "idle", "replay", "return"
    queue,          \* rebuild: the resolved sessions not yet replayed
    to_reset,       \* rebuild: ratings_to_reset
    backedup,       \* rebuild: backedup
    rlog,           \* the RebuildLog row of the rebuild: "none", "open", "saved"
    scope,          \* the arguments of the current or last rebuild
    replayed,       \* the sessions it has replayed so far, in order
    db0,            \* the Performance and Rating tables when it started
    outcome,        \* of the rebuild: "none", "running", "done", "failed"
    after_full,     \* TRUE when the rebuild was called right after a full
                    \* rebuild that ran to completion
    fs,             \* the influence tree traversal: its list objects, its
                    \* call stack and its result
    other,          \* a second invocation of Rating.rebuild, in another worker
                    \* of the server: where it is, and its local variables
    op              \* the method called last outside a rebuild, with its
                    \* arguments and what it returned

vars == <<session, game, perf, rating, backup, bypass_admin, pc, queue, to_reset,
          backedup, rlog, scope, replayed, db0, outcome, after_full, fs, other, op>>

\* ------------------------------------------------------------- sequences
Range(q) == {q[i] : i \in DOMAIN q}

\* All the sequences that list each element of the set S exactly once.
RECURSIVE Perms(_)
Perms(S) ==
    IF S = {} THEN {<<>>}
    ELSE UNION {{<<x>> \o q : q \in Perms(S \ {x})} : x \in S}

\* ---------------------------------------------------- sessions and ranks
\* A Rank row is [rank, players]: the player of an individual rank, or the
\* players of the team of a team rank.
game_of(s) == session[s].game
date_time(s) == session[s].date_time

\* Q(ranks__player=player) | Q(ranks__team__players=player)
Involves(s, p) == \E r \in session[s].ranks : p \in r.players

\* Session.players: the players of the session's Performance rows.
players(s) == {p \in Players : <<s, p>> \in DOMAIN perf}

\* Session.rank(player).rank
rank(s, p) == (CHOOSE r \in session[s].ranks : p \in r.players).rank

\* Session.previous_sessions(player): includes the session itself.
previous_sessions(s, p) ==
    {x \in SessionIds : /\ date_time(x) <= date_time(s)
                        /\ game_of(x) = game_of(s)
                        /\ Involves(x, p)}

\* (variant) the earliest of the earlier sessions instead of the latest
previous_session_earliest(s, p) ==
    LET prev == previous_sessions(s, p) \ {s}
    IN  IF prev = {} THEN None
        ELSE CHOOSE x \in prev : \A y \in prev : date_time(x) <= date_time(y)

\* (variant) prev_sessions[0], the session itself, instead of prev_sessions[1]
previous_session_itself(s, p) ==
    IF previous_sessions(s, p) \ {s} = {} THEN None ELSE s

\* Session.previous_session(player): prev_sessions[1] of the list ordered by
\* descending date_time, None when the list is the session alone.
previous_session(s, p) ==
    LET prev == previous_sessions(s, p) \ {s}
    IN  IF prev = {} THEN None
        ELSE CHOOSE x \in prev : \A y \in prev : date_time(y) <= date_time(x)

\* Session.previous_performance(player)
previous_performance(pf, s, p) ==
    LET prev_session == previous_session(s, p)
    IN  IF prev_session = None THEN NoRow ELSE pf[<<prev_session, p>>]

\* Session.previous_victory(player): the latest session up to and including
\* this one in which a rank 1 row involves the player.
previous_victory(s, p) ==
    LET wins == {x \in SessionIds :
                    /\ date_time(x) <= date_time(s)
                    /\ game_of(x) = game_of(s)
                    /\ \E r \in session[x].ranks : r.rank = 1 /\ p \in r.players}
    IN  IF wins = {} THEN None
        ELSE CHOOSE x \in wins : \A y \in wins : date_time(y) <= date_time(x)

\* Player.last_play(game)
last_play(p, g) ==
    LET plays == {x \in SessionIds : game_of(x) = g /\ Involves(x, p)}
    IN  IF plays = {} THEN None
        ELSE CHOOSE x \in plays : \A y \in plays : date_time(y) <= date_time(x)

\* Performance.is_victory compares the Rank row (a model instance) with the
\* integer 1, which is never equal.
is_victory(s, p) == FALSE

\* ------------------------------------------------------------ TrueSkill
\* eta = mu - (mu0 / sigma0) * sigma
Eta(mu, sigma) == mu - (mu0 \div sigma0) * sigma

RECURSIVE SumMu(_, _)
SumMu(prior, ps) ==
    IF ps = {} THEN 0
    ELSE LET p == CHOOSE x \in ps : TRUE
         IN  prior[p].mu + SumMu(prior, ps \ {p})

\* trueskill.TrueSkill.rate, the external library, as a deterministic
\* function of the priors and the ranking: each rating group gains against
\* every group it beat and loses against every group that beat it, twice as
\* much when the result is an upset, and every sigma shrinks by one.
rate(prior, ranks) ==
    LET strength(r) == SumMu(prior, r.players)
        versus(r, o) ==
            IF r.rank < o.rank THEN (IF strength(r) > strength(o) THEN 1 ELSE 2)
            ELSE IF r.rank > o.rank THEN (IF strength(r) < strength(o) THEN 0 - 1 ELSE 0 - 2)
            ELSE 0
        RECURSIVE Gain(_, _)
        Gain(r, others) ==
            IF others = {} THEN 0
            ELSE LET o == CHOOSE x \in others : TRUE
                 IN  versus(r, o) + Gain(r, others \ {o})
        group(p) == CHOOSE r \in ranks : p \in r.players
    IN  [p \in DOMAIN prior |->
            [mu |-> prior[p].mu + Gain(group(p), ranks \ {group(p)}),
             sigma |-> prior[p].sigma - 1]]

\* ---------------------------------------------------------- Performance
\* The field defaults of a Performance row.
DefaultPerformance ==
    [play_number |-> 1, victory_count |-> 0,
     trueskill_mu_before |-> mu0, trueskill_sigma_before |-> sigma0,
     trueskill_eta_before |-> 0,
     trueskill_mu_after |-> mu0, trueskill_sigma_after |-> sigma0,
     trueskill_eta_after |-> 0,
     trueskill |-> [mu0 |-> mu0, sigma0 |-> sigma0, p |-> DRAW_PROBABILITY,
                    delta |-> DELTA, beta |-> BETA, tau |-> TAU]]

\* (variant) the conditional expression bound to the increment alone:
\* previous.victory_count + (1 if won else previous.victory_count)
victory_count_loose(previous, won) ==
    previous.victory_count + (IF won THEN 1 ELSE previous.victory_count)

\* previous.victory_count + 1 if won else previous.victory_count
victory_count(previous, won) ==
    IF won THEN previous.victory_count + 1 ELSE previous.victory_count

\* The TrueSkill settings in place for game g: the site wide mu0, sigma0
\* and delta, and the beta, tau and p of the game. A Rating row and a
\* Performance row record them in their fields trueskill_mu0 to trueskill_p,
\* here the record in the field trueskill.
TrueskillSettings(g) ==
    [mu0 |-> mu0, sigma0 |-> sigma0, delta |-> DELTA,
     beta |-> game[g].trueskill_beta,
     tau |-> game[g].trueskill_tau,
     p |-> game[g].trueskill_p]

\* Performance.initialise(save=True)
initialise(pf, s, p) ==
    LET from(previous, row) ==
            IF previous = NoRow
            THEN [row EXCEPT !.play_number = 1,
                             !.victory_count = IF rank(s, p) = 1 THEN 1 ELSE 0,
                             !.trueskill_mu_before = mu0,
                             !.trueskill_sigma_before = sigma0,
                             !.trueskill_eta_before = 0]
            ELSE [row EXCEPT !.play_number = previous.play_number + 1,
                             !.victory_count = victory_count(previous, rank(s, p) = 1),
                             !.trueskill_mu_before = previous.trueskill_mu_after,
                             !.trueskill_sigma_before = previous.trueskill_sigma_after,
                             !.trueskill_eta_before = previous.trueskill_eta_after]
    IN  from(previous_performance(pf, s, p),
             [pf[<<s, p>>] EXCEPT !.trueskill = TrueskillSettings(game_of(s))])

\* Session.build_trueskill_data(save=True): initialises and saves the
\* Performance of every ranked player.
build_trueskill_data(pf, s) ==
    [k \in DOMAIN pf |-> IF k[1] = s THEN initialise(pf, s, k[2]) ELSE pf[k]]

\* Session.calculate_trueskill_impacts: the Performance table after the
\* session's rows are initialised, rated and saved.
calculate_trueskill_impacts(pf, s) ==
    LET prior(pf1) == [p \in players(s) |->
                        [mu |-> pf1[<<s, p>>].trueskill_mu_before,
                         sigma |-> pf1[<<s, p>>].trueskill_sigma_before]]
        saved(pf1, new) ==
            [k \in DOMAIN pf |->
                IF k[1] = s
                THEN [pf1[k] EXCEPT
                        !.trueskill_mu_after = new[k[2]].mu,
                        !.trueskill_sigma_after = new[k[2]].sigma,
                        !.trueskill_eta_after = Eta(new[k[2]].mu, new[k[2]].sigma),
                        !.trueskill_eta_before = Eta(pf1[k].trueskill_mu_before,
                                                     pf1[k].trueskill_sigma_before)]
                ELSE pf[k]]
        rated(pf1) == saved(pf1, rate(prior(pf1), session[s].ranks))
    IN  rated(build_trueskill_data(pf, s))

\* --------------------------------------------------------------- Rating
\* Rating.create(player, game)
create(g) ==
    [plays |-> 0, victories |-> 0, last_play |-> NEVER, last_victory |-> NEVER,
     trueskill_mu |-> mu0, trueskill_sigma |-> sigma0,
     trueskill_eta |-> Eta(mu0, sigma0),
     trueskill |-> TrueskillSettings(g)]

\* Rating.get(player, game) as far as the row goes: the stored row, or a new
\* unsaved one.
get(rt, p, g) == IF rt[<<p, g>>] = NoRow THEN create(g) ELSE rt[<<p, g>>]

\* (variant) the check without its last line, that of trueskill_p
setting_but_p_changed(r, g) ==
    ~ /\ r.trueskill.mu0 = mu0
      /\ r.trueskill.sigma0 = sigma0
      /\ r.trueskill.delta = DELTA
      /\ r.trueskill.beta = game[g].trueskill_beta
      /\ r.trueskill.tau = game[g].trueskill_tau

\* The integrity check of Rating.get: a setting recorded in the row r is not
\* the one in place for game g.
setting_changed(r, g) ==
    ~ /\ r.trueskill.mu0 = mu0
      /\ r.trueskill.sigma0 = sigma0
      /\ r.trueskill.delta = DELTA
      /\ r.trueskill.beta = game[g].trueskill_beta
      /\ r.trueskill.tau = game[g].trueskill_tau
      /\ r.trueskill.p = game[g].trueskill_p

\* Rating.get(player, game) raises DataError.
DataError(rt, p, g) == setting_changed(get(rt, p, g), g)

\* What a call of Rating.get(player, game) gives its caller: the Rating, or
\* the exception.
Raised == [raised |-> "DataError"]
get_or_raise(rt, p, g) == IF DataError(rt, p, g) THEN Raised ELSE get(rt, p, g)

\* (variant) every Rating of the session is written
is_latest_always(r, s) == TRUE

\* (variant) the comparison the other way round
is_latest_reversed(r, s) == date_time(s) <= r.last_play

\* is_latest[performance.player] = session.date_time >= rating.last_play
is_latest(r, s) == date_time(s) >= r.last_play

\* Rating.update(session): the tables after the session is rated. A Rating
\* is written for each player for whom the session is not earlier than the
\* Rating's last_play.
update(db, s) ==
    LET g == game_of(s)
        written(r, performance, p) ==
            [r EXCEPT !.trueskill_mu = performance.trueskill_mu_after,
                      !.trueskill_sigma = performance.trueskill_sigma_after,
                      !.trueskill_eta = Eta(performance.trueskill_mu_after,
                                            performance.trueskill_sigma_after),
                      !.trueskill = TrueskillSettings(g),
                      !.plays = performance.play_number,
                      !.victories = performance.victory_count,
                      !.last_play = date_time(s),
                      !.last_victory = IF is_victory(s, p) THEN date_time(s)
                                       ELSE r.last_victory]
        saved(player_rating, is_latest_for, pf) ==
            [perf |-> pf,
             rating |-> [k \in DOMAIN db.rating |->
                            IF k[2] = g /\ k[1] \in players(s) /\ is_latest_for[k[1]]
                            THEN written(player_rating[k[1]], pf[<<s, k[1]>>], k[1])
                            ELSE db.rating[k]]]
        rated(player_rating) ==
            saved(player_rating,
                  [p \in players(s) |-> is_latest(player_rating[p], s)],
                  calculate_trueskill_impacts(db.perf, s))
    IN  rated([p \in players(s) |-> get(db.rating, p, g)])

\* (variant) the Rating is fetched and saved as it is
reset_nothing(db, p, g) == get(db.rating, p, g)

\* Rating.reset() followed by save(), as Rating.rebuild calls it: the Rating
\* of the pair copied from the Performance of the player's last play.
reset(db, p, g) ==
    LET copied(r, s, performance, last_victory) ==
            [r EXCEPT !.plays = performance.play_number,
                      !.victories = performance.victory_count,
                      !.last_play = date_time(s),
                      !.last_victory =
                          IF is_victory(s, p) THEN date_time(s)
                          ELSE IF last_victory = None THEN NEVER
                          ELSE date_time(last_victory),
                      !.trueskill_mu = performance.trueskill_mu_after,
                      !.trueskill_sigma = performance.trueskill_sigma_after,
                      !.trueskill_eta = performance.trueskill_eta_after,
                      !.trueskill = performance.trueskill]
        from(r, s) ==
            IF s = None THEN r
            ELSE copied(r, s, db.perf[<<s, p>>], previous_victory(s, p))
    IN  from(get(db.rating, p, g), last_play(p, g))

\* ------------------------------------------------------- Rating.rebuild
\* (variant) the list as it was passed
unsorted(L) == L

\* (variant) the list sorted by descending date_time
RECURSIVE sorted_descending(_)
sorted_descending(L) ==
    IF L = <<>> THEN <<>>
    ELSE LET rest == sorted_descending(Tail(L))
             x == Head(L)
             n == Cardinality({i \in DOMAIN rest : date_time(rest[i]) > date_time(x)})
         IN  SubSeq(rest, 1, n) \o <<x>> \o SubSeq(rest, n + 1, Len(rest))

\* sorted(Sessions, key=lambda s: s.date_time): a stable sort.
RECURSIVE sorted(_)
sorted(L) ==
    IF L = <<>> THEN <<>>
    ELSE LET rest == sorted(Tail(L))
             x == Head(L)
             n == Cardinality({i \in DOMAIN rest : date_time(rest[i]) < date_time(x)})
         IN  SubSeq(rest, 1, n) \o <<x>> \o SubSeq(rest, n + 1, Len(rest))

\* A queryset .order_by('date_time') over the sessions S: any listing of S in
\* ascending date_time; the database orders sessions of equal time.
order_by_date_time(S) ==
    {q \in Perms(S) : \A i, j \in DOMAIN q : i < j => date_time(q[i]) <= date_time(q[j])}

\* (variant) date_time__gt instead of date_time__gte
filter_after(G, From) ==
    {s \in SessionIds : /\ (G # None => game_of(s) = G)
                        /\ (From # None => date_time(s) > From)}

\* Session.objects.filter(sfilterg & sfilterf)
filter(G, From) ==
    {s \in SessionIds : /\ (G # None => game_of(s) = G)
                        /\ (From # None => date_time(s) >= From)}

\* The scope resolution of Rating.rebuild: the lists of sessions that the
\* arguments can resolve to.
resolve(G, From, Sessions) ==
    IF Sessions # <<>> THEN {sorted(Sessions)}
    ELSE IF G = None /\ From = None THEN order_by_date_time(SessionIds)
    ELSE order_by_date_time(filter(G, From))

NoTables == [r \in Players \X Games |-> NoRow]

\* No method has been called since the last rebuild began.
NoOp == [session |-> None, game |-> None, name |-> "none", player |-> None,
         asat |-> None, result |-> NoRow]

\* No second invocation is running.
NoOther == [pc |-> "idle", queue |-> <<>>, to_reset |-> {}, backedup |-> {}]

\* The loop over ratings_to_reset: get, reset and save each Rating.
reset_all(db, keys) ==
    [perf |-> db.perf,
     rating |-> [k \in DOMAIN db.rating |->
                    IF k \in keys THEN reset(db, k[1], k[2]) ELSE db.rating[k]]]

\* The replay loop over the list q of sessions, as far as the Performance
\* and Rating tables go.
RECURSIVE replay(_, _)
replay(db, q) == IF q = <<>> THEN db ELSE replay(update(db, Head(q)), Tail(q))

\* The Performance and Rating tables that Rating.rebuild leaves when it
\* resolves its scope to the list q.
rebuilt(db, q) ==
    reset_all(replay(db, q),
              UNION {{<<p, game_of(q[i])>> : p \in players(q[i])} : i \in DOMAIN q})

\* Rating.rebuild from its entry to the start of the replay loop. With no
\* session resolved, first_session is None and reading its date_time_local
\* raises: only the bypass flag has been set by then.
BeginCall(G, From, Sessions, sessions, call) ==
    /\ bypass_admin' = TRUE
    /\ scope' = [Game |-> G, From |-> From, Sessions |-> Sessions]
    /\ db0' = [perf |-> perf, rating |-> rating]
    /\ to_reset' = {}
    /\ backedup' = {}
    /\ replayed' = <<>>
    /\ IF sessions = <<>>
       THEN /\ outcome' = "failed"
            /\ pc' = "return"
            /\ rlog' = "none"
            /\ UNCHANGED <<queue, backup>>
       ELSE /\ outcome' = "running"
            /\ pc' = "replay"
            /\ rlog' = "open"
            /\ backup' = NoTables
            /\ queue' = sessions
    /\ op' = call
    /\ UNCHANGED <<session, game, perf, rating, fs, other>>

Begin(G, From, Sessions, sessions) == BeginCall(G, From, Sessions, sessions, NoOp)

\* The sessions of S listed by ascending pk.
RECURSIVE Listed(_)
Listed(S) ==
    IF S = {} THEN <<>>
    ELSE LET x == CHOOSE y \in S : \A z \in S : y <= z
         IN  <<x>> \o Listed(S \ {x})

Reversed(L) == [i \in DOMAIN L |-> L[Len(L) + 1 - i]]

\* The lists of sessions passed as Sessions: any sessions, listed by
\* ascending or by descending pk.
SessionLists ==
    UNION {{Listed(S), Reversed(Listed(S))} : S \in SUBSET SessionIds \ {{}}}

\* Rating.rebuild(Sessions=L)
RebuildSessions(L) ==
    /\ pc = "idle"
    /\ after_full' = FALSE
    /\ \E sessions \in resolve(None, None, L) : Begin(None, None, L, sessions)

\* Rating.rebuild(Sessions=[]): the empty list is falsy, so `if Sessions:`
\* fails as it does for Sessions=None and the branch of no Game and no From
\* lists all the sessions. op keeps that a Sessions argument was passed.
RebuildEmptySessions ==
    /\ pc = "idle"
    /\ after_full' = FALSE
    /\ \E sessions \in resolve(None, None, <<>>) :
          BeginCall(None, None, <<>>, sessions, [NoOp EXCEPT !.name = "rebuild_sessions"])

\* Rating.rebuild()
RebuildAll ==
    /\ pc = "idle"
    /\ after_full' = FALSE
    /\ \E sessions \in resolve(None, None, <<>>) : Begin(None, None, <<>>, sessions)

\* Rating.rebuild() called again as soon as a Rating.rebuild() has returned
\* its RebuildLog.
RebuildAllAgain ==
    /\ pc = "return"
    /\ outcome = "done"
    /\ scope = [Game |-> None, From |-> None, Sessions |-> <<>>]
    /\ ~after_full
    /\ after_full' = TRUE
    /\ \E sessions \in resolve(None, None, <<>>) : Begin(None, None, <<>>, sessions)

\* (variant) assert not (Game and From)
conflicting_both(G, From, Sessions) ==
    Sessions # <<>> /\ G # None /\ From # None

\* if Sessions: assert not Game and not From, "Invalid ratings rebuild
\* requested."
conflicting(G, From, Sessions) ==
    Sessions # <<>> /\ (G # None \/ From # None)

\* Rating.rebuild(Game=G, From=T, Sessions=L) with a list of sessions and a
\* game or a time: the bypass flag is set, then the assertion of the
\* Sessions branch raises; were it to pass, the list would be replayed.
RebuildSessionsAnd(G, From, L) ==
    /\ pc = "idle"
    /\ G # None \/ From # None
    /\ after_full' = FALSE
    /\ IF conflicting(G, From, L)
       THEN Begin(G, From, L, <<>>)
       ELSE \E sessions \in resolve(None, None, L) : Begin(G, From, L, sessions)

\* Rating.rebuild(Game=G, From=T), Rating.rebuild(Game=G), Rating.rebuild(From=T)
RebuildFrom(G, From) ==
    /\ pc = "idle"
    /\ G # None \/ From # None
    /\ after_full' = FALSE
    /\ LET S == resolve(G, From, <<>>)
       IN  IF S = {<<>>} THEN Begin(G, From, <<>>, <<>>)
           ELSE \E sessions \in S : Begin(G, From, <<>>, sessions)

\* One pass of the replay loop on the tables tb, for the session s, in a
\* rebuild that has backed up the pairs of done: back up the Ratings met for
\* the first time (but for those that Rating.get raises for, which the loop
\* passes over), then update the session. Rating.update gets the Rating of
\* every player before it writes anything: if Rating.get raises for one of
\* them, the DataError ends the rebuild there.
replay_session(tb, s, done) ==
    LET g == game_of(s)
        pass(fresh, raised, db) ==
            [backup |-> [k \in DOMAIN tb.backup |->
                            IF k \in fresh THEN get(tb.rating, k[1], k[2]) ELSE tb.backup[k]],
             backedup |-> done \cup fresh,
             raised |-> raised,
             perf |-> IF raised THEN tb.perf ELSE db.perf,
             rating |-> IF raised THEN tb.rating ELSE db.rating]
    IN  pass({k \in {<<p, g>> : p \in players(s)} \ done : ~DataError(tb.rating, k[1], k[2])},
             \E p \in players(s) : DataError(tb.rating, p, g),
             update([perf |-> tb.perf, rating |-> tb.rating], s))

\* One pass of the replay loop, which also notes the Ratings to reset.
ReplaySession ==
    /\ pc = "replay"
    /\ queue # <<>>
    /\ LET s == Head(queue)
           pass(new) ==
               /\ backup' = new.backup
               /\ backedup' = new.backedup
               /\ perf' = new.perf
               /\ rating' = new.rating
               /\ IF new.raised
                  THEN /\ pc' = "return"
                       /\ outcome' = "failed"
                       /\ UNCHANGED <<queue, to_reset, replayed>>
                  ELSE /\ to_reset' = to_reset \cup {<<p, game_of(s)>> : p \in players(s)}
                       /\ replayed' = Append(replayed, s)
                       /\ queue' = Tail(queue)
                       /\ UNCHANGED <<pc, outcome>>
       IN  pass(replay_session([perf |-> perf, rating |-> rating, backup |-> backup],
                               s, backedup))
    /\ UNCHANGED <<session, game, bypass_admin, rlog, scope, db0, after_full, fs, other, op>>

\* The end of Rating.rebuild, after the last session: reset and save every
\* Rating noted, stop bypassing the admin fields, save the RebuildLog.
ResetRatings ==
    /\ pc = "replay"
    /\ queue = <<>>
    /\ rating' = reset_all([perf |-> perf, rating |-> rating], to_reset).rating
    /\ bypass_admin' = FALSE
    /\ rlog' = "saved"
    /\ pc' = "return"
    /\ outcome' = "done"
    /\ UNCHANGED <<session, game, perf, backup, queue, to_reset, backedup, scope,
                   replayed, db0, after_full, fs, other, op>>

\* Rating.rebuild hands control back to its caller, with the RebuildLog or
\* with the exception; its local variables are gone.
Return ==
    /\ pc = "return"
    /\ pc' = "idle"
    /\ to_reset' = {}
    /\ backedup' = {}
    /\ replayed' = <<>>
    /\ rlog' = "none"
    /\ outcome' = "none"
    /\ scope' = [Game |-> None, From |-> None, Sessions |-> <<>>]
    /\ db0' = [perf |-> perf, rating |-> rating]
    /\ after_full' = FALSE
    /\ queue' = <<>>
    /\ UNCHANGED <<session, game, perf, rating, backup, bypass_admin, fs, other, op>>

\* ------------------------------------------- the influence tree traversal
\* (variant) the query without its exclude(pk__in=exclude_pks)
new_future_sessions_unexcluded(s, sessions_so_far) ==
    {x \in SessionIds : /\ date_time(x) > date_time(s)
                        /\ game_of(x) = game_of(s)
                        /\ players(x) \cap players(s) # {}}

\* (variant) date_time__gte for date_time__gt, and nothing excluded
new_future_sessions_again(s, sessions_so_far) ==
    {x \in SessionIds : /\ date_time(x) >= date_time(s)
                        /\ game_of(x) = game_of(s)
                        /\ players(x) \cap players(s) # {}}

\* Session._get_future_sessions, its query: the sessions of the game of s,
\* later than s, with a player of s, that are not in the list so far.
new_future_sessions(s, sessions_so_far) ==
    {x \in SessionIds : /\ date_time(x) > date_time(s)
                        /\ game_of(x) = game_of(s)
                        /\ players(x) \cap players(s) # {}
                        /\ x \notin Range(sessions_so_far)}

\* Game.future_sessions, its query: the sessions of game g later than asat,
\* of any of the players, or of anyone when no players are given.
game_future_sessions(g, asat, ps) ==
    {x \in SessionIds : /\ date_time(x) > asat
                        /\ game_of(x) = g
                        /\ (ps # {} => players(x) \cap ps # {})}

\* The frames a traversal may stack up before Python raises RecursionError:
\* room for Game.future_sessions and a call nested in a call for each of
\* NumSessions sessions.
RecursionLimit == NumSessions + 1

NoTraversal ==
    [pc |-> "idle", players |-> {}, result |-> <<>>, heap |-> <<>>, stack |-> <<>>,
     calls |-> 0, root |-> None]

\* The frame of a call of _get_future_sessions on session s with the list
\* object ref, after its query has listed the sessions found as found.
Frame(s, ref, found) ==
    [self |-> s, sessions_so_far |-> ref, new_future_sessions |-> found, next |-> 1]

\* Session.future_sessions of session s: _get_future_sessions([]), up to the
\* loop over the sessions that its query finds, which extend the list.
SessionFutureSessions(s) ==
    /\ fs.pc = "idle"
    /\ \E found \in order_by_date_time(new_future_sessions(s, <<>>)) :
          fs' = [fs EXCEPT !.pc = "running",
                           !.root = s,
                           !.heap = <<found>>,
                           !.stack = <<Frame(s, 1, found)>>,
                           !.calls = 1]
    /\ UNCHANGED <<session, game, perf, rating, backup, bypass_admin, pc, queue, to_reset,
                   backedup, rlog, scope, replayed, db0, outcome, after_full, other, op>>

\* Game.future_sessions(asat, players) of game g, up to its loop over the
\* sessions of its query, which it skips when no players are given.
GameFutureSessions(g, asat, ps) ==
    /\ fs.pc = "idle"
    /\ \E found \in order_by_date_time(game_future_sessions(g, asat, ps)) :
          fs' = [fs EXCEPT !.pc = "running",
                           !.players = ps,
                           !.heap = <<found>>,
                           !.stack = <<Frame(None, 1,
                                             IF ps # {} THEN found ELSE <<>>)>>]
    /\ UNCHANGED <<session, game, perf, rating, backup, bypass_admin, pc, queue, to_reset,
                   backedup, rlog, scope, replayed, db0, outcome, after_full, other, op>>

\* session._get_future_sessions(sessions_so_far) in the loop of the frame on
\* top: the call on the next session found, passing the caller's list
\* object, which the callee extends in place with the sessions its own
\* query finds. One frame too many raises RecursionError.
Call ==
    /\ fs.pc = "running"
    /\ LET top == fs.stack[Len(fs.stack)]
           ref == top.sessions_so_far
       IN  /\ top.next <= Len(top.new_future_sessions)
           /\ LET s == top.new_future_sessions[top.next]
              IN  IF Len(fs.stack) >= RecursionLimit
                  THEN fs' = [fs EXCEPT !.pc = "failed"]
                  ELSE \E found \in order_by_date_time(new_future_sessions(s, fs.heap[ref])) :
                          fs' = [fs EXCEPT !.heap[ref] = @ \o found,
                                           !.stack = Append(@, Frame(s, ref, found)),
                                           !.calls = @ + 1]
    /\ UNCHANGED <<session, game, perf, rating, backup, bypass_admin, pc, queue, to_reset,
                   backedup, rlog, scope, replayed, db0, outcome, after_full, other, op>>

\* The return of the call on top to the loop that made it: the caller binds
\* sessions_so_far to a sorted copy of the list returned when that is longer
\* than its own list, and goes on to the next session.
ReturnCall ==
    /\ fs.pc = "running"
    /\ Len(fs.stack) > 1
    /\ LET n == Len(fs.stack)
           top == fs.stack[n]
           caller == fs.stack[n - 1]
           new_sessions_so_far == top.sessions_so_far
           longer == Len(fs.heap[new_sessions_so_far]) > Len(fs.heap[caller.sessions_so_far])
       IN  /\ top.next > Len(top.new_future_sessions)
           /\ fs' = [fs EXCEPT
                       !.heap = IF longer
                                THEN Append(@, sorted(fs.heap[new_sessions_so_far]))
                                ELSE @,
                       !.stack = [SubSeq(@, 1, n - 1) EXCEPT
                                     ![n - 1].sessions_so_far =
                                         IF longer THEN Len(fs.heap) + 1 ELSE @,
                                     ![n - 1].next = @ + 1]]
    /\ UNCHANGED <<session, game, perf, rating, backup, bypass_admin, pc, queue, to_reset,
                   backedup, rlog, scope, replayed, db0, outcome, after_full, other, op>>

\* The return of the outermost call: the list that its sessions_so_far is
\* bound to.
Finish ==
    /\ fs.pc = "running"
    /\ Len(fs.stack) = 1
    /\ LET top == fs.stack[1]
       IN  /\ top.next > Len(top.new_future_sessions)
           /\ fs' = [fs EXCEPT !.pc = "done",
                               !.result = fs.heap[top.sessions_so_far],
                               !.stack = <<>>]
    /\ UNCHANGED <<session, game, perf, rating, backup, bypass_admin, pc, queue, to_reset,
                   backedup, rlog, scope, replayed, db0, outcome, after_full, other, op>>

\* ----------------------------------------------------------------- Init
\* The Rank rows of session i. Player 1 plays in every session, against the
\* other players in turn: an individual session that player 1 wins, or a
\* team session that player 1 loses to a team of two.
Ranks(i, team_play) ==
    LET o1 == 2 + ((i - 1) % (NumPlayers - 1))
        o2 == 2 + (i % (NumPlayers - 1))
    IN  IF team_play
        THEN {[players |-> {o1, o2}, rank |-> 1], [players |-> {1}, rank |-> 2]}
        ELSE {[players |-> {1}, rank |-> 1], [players |-> {o1}, rank |-> 2]}

\* Sessions are individual and team sessions in turn. All but the last are
\* sessions of game 1, played in the order of their pk; the last is a session
\* of game 1 or of the last game, at any time.
SessionTables ==
    {t \in [SessionIds -> [game : Games, date_time : Times, team_play : BOOLEAN]] :
        \A i \in SessionIds :
            /\ t[i].team_play = (i % 2 = 0)
            /\ i < NumSessions => t[i].game = 1 /\ t[i].date_time = i
            /\ t[i].game \in {1, NumGames}}

\* Session.previous_session asserts that the times of two sessions of one
\* game that share a player differ: the sessions start out so.
NoClash ==
    \A s, x \in SessionIds :
        (/\ s # x
         /\ game_of(s) = game_of(x)
         /\ \E p \in Players : Involves(s, p) /\ Involves(x, p))
            => date_time(s) # date_time(x)

\* The games have the default TrueSkill settings and player counts, and
\* support individual and team play.
GameTable ==
    [g \in Games |->
        [trueskill_beta |-> BETA, trueskill_tau |-> TAU, trueskill_p |-> DRAW_PROBABILITY,
         team_play |-> TRUE, individual_play |-> TRUE,
         min_players |-> 2, max_players |-> 4]]

\* The tables after the sessions are imported: every Performance row has the
\* field defaults, and no Rating is stored.
Init ==
    /\ \E t \in SessionTables :
          session = [i \in SessionIds |->
                        [game |-> t[i].game, date_time |-> t[i].date_time,
                         team_play |-> t[i].team_play,
                         ranks |-> Ranks(i, t[i].team_play)]]
    /\ NoClash
    /\ perf = [k \in {k \in SessionIds \X Players : Involves(k[1], k[2])} |->
                  DefaultPerformance]
    /\ game = GameTable
    /\ rating = NoTables
    /\ backup = NoTables
    /\ bypass_admin = FALSE
    /\ pc = "idle"
    /\ queue = <<>>
    /\ to_reset = {}
    /\ backedup = {}
    /\ rlog = "none"
    /\ scope = [Game |-> None, From |-> None, Sessions |-> <<>>]
    /\ replayed = <<>>
    /\ db0 = [perf |-> perf, rating |-> rating]
    /\ outcome = "none"
    /\ after_full = FALSE
    /\ fs = NoTraversal
    /\ other = NoOther
    /\ op = NoOp

Next ==
    \/ \E L \in SessionLists : RebuildSessions(L)
    \/ RebuildAll
    \/ RebuildAllAgain
    \/ \E G \in Games \cup {None}, From \in Times \cup {None} : RebuildFrom(G, From)
    \/ \E G \in {None, 1}, From \in {None, 1} : RebuildSessionsAnd(G, From, <<1>>)
    \/ ReplaySession
    \/ ResetRatings
    \/ Return

Spec == Init /\ [][Next]_vars

\* A TrueSkill setting of a game is edited between two rebuilds: its
\* trueskill_tau gets another value than the default.
EditGame(g) ==
    /\ pc = "idle"
    /\ game[g].trueskill_tau = TAU
    /\ game' = [game EXCEPT ![g].trueskill_tau = TAU + 1]
    /\ op' = NoOp
    /\ UNCHANGED <<session, perf, rating, backup, bypass_admin, pc, queue, to_reset,
                   backedup, rlog, scope, replayed, db0, outcome, after_full, fs, other>>

\* Rebuilds of all the sessions or of a list of them, and edits of the games.
NextEdit ==
    \/ \E s \in SessionIds : RebuildSessions(<<s>>)
    \/ RebuildAll
    \/ \E g \in Games : EditGame(g)
    \/ ReplaySession
    \/ ResetRatings
    \/ Return

SpecEdit == Init /\ [][NextEdit]_vars

\* Rating.rebuild() is called in another worker of the server while a
\* rebuild is replaying: Rating.rebuild neither takes a lock nor looks for a
\* rebuild under way. The second invocation resolves its scope, saves its
\* RebuildLog and empties BackupRating.
OtherRebuildAll ==
    /\ pc = "replay"
    /\ other.pc = "idle"
    /\ backup' = NoTables
    /\ \E sessions \in resolve(None, None, <<>>) :
          other' = [pc |-> "replay", queue |-> sessions, backedup |-> {}, to_reset |-> {}]
    /\ UNCHANGED <<session, game, perf, rating, bypass_admin, pc, queue, to_reset,
                   backedup, rlog, scope, replayed, db0, outcome, after_full, fs, op>>

\* One pass of the replay loop of the second invocation.
OtherReplaySession ==
    /\ other.pc = "replay"
    /\ other.queue # <<>>
    /\ LET s == Head(other.queue)
           pass(new) ==
               /\ backup' = new.backup
               /\ perf' = new.perf
               /\ rating' = new.rating
               /\ other' = IF new.raised
                           THEN [other EXCEPT !.pc = "done", !.backedup = new.backedup]
                           ELSE [other EXCEPT
                                   !.backedup = new.backedup,
                                   !.to_reset = @ \cup {<<p, game_of(s)>> : p \in players(s)},
                                   !.queue = Tail(@)]
       IN  pass(replay_session([perf |-> perf, rating |-> rating, backup |-> backup],
                               s, other.backedup))
    /\ UNCHANGED <<session, game, bypass_admin, pc, queue, to_reset, backedup, rlog,
                   scope, replayed, db0, outcome, after_full, fs, op>>

\* The end of the second invocation: it resets and saves the Ratings it
\* noted, and returns.
OtherResetRatings ==
    /\ other.pc = "replay"
    /\ other.queue = <<>>
    /\ rating' = reset_all([perf |-> perf, rating |-> rating], other.to_reset).rating
    /\ other' = [other EXCEPT !.pc = "done"]
    /\ UNCHANGED <<session, game, perf, backup, bypass_admin, pc, queue, to_reset,
                   backedup, rlog, scope, replayed, db0, outcome, after_full, fs, op>>

\* Rebuilds of a list of sessions, which may be empty.
NextLists ==
    \/ \E s \in SessionIds : RebuildSessions(<<s>>)
    \/ RebuildEmptySessions
    \/ ReplaySession
    \/ ResetRatings
    \/ Return

SpecLists == Init /\ [][NextLists]_vars

\* Two workers of the server: rebuilds of all the sessions in one, and one
\* rebuild of all the sessions in the other.
NextTwo ==
    \/ RebuildAll
    \/ ReplaySession
    \/ ResetRatings
    \/ Return
    \/ OtherRebuildAll
    \/ OtherReplaySession
    \/ OtherResetRatings

SpecTwo == Init /\ [][NextTwo]_vars

\* The sessions that are stored: a session that was deleted is left here
\* without ranks.
stored == {s \in SessionIds : session[s].ranks # {}}

\* A session is deleted between two rebuilds: its Rank and Performance rows
\* go with it (on_delete=models.CASCADE), the Ratings stay.
DeleteSession(s) ==
    /\ pc = "idle"
    /\ s \in stored
    /\ session' = [session EXCEPT ![s].ranks = {}]
    /\ perf' = [k \in {k \in DOMAIN perf : k[1] # s} |-> perf[k]]
    /\ db0' = [perf |-> perf', rating |-> rating]
    /\ op' = NoOp
    /\ UNCHANGED <<game, rating, backup, bypass_admin, pc, queue, to_reset, backedup,
                   rlog, scope, replayed, outcome, after_full, fs, other>>

\* r = Rating.get(player, game); r.reset(); r.save() for a stored Rating,
\* called as Rating.rebuild calls them, but on their own.
ResetRating(p, g) ==
    /\ pc = "idle"
    /\ rating[<<p, g>>] # NoRow
    /\ ~DataError(rating, p, g)
    /\ rating' = [rating EXCEPT ![<<p, g>>] = reset([perf |-> perf, rating |-> rating], p, g)]
    /\ db0' = [perf |-> perf, rating |-> rating']
    /\ op' = [NoOp EXCEPT !.name = "reset", !.player = p, !.game = g]
    /\ UNCHANGED <<session, game, perf, backup, bypass_admin, pc, queue, to_reset,
                   backedup, rlog, scope, replayed, outcome, after_full, fs, other>>

\* Rebuilds of the stored sessions, deletions of sessions and resets of
\* Ratings.
NextReset ==
    \/ stored # {} /\ RebuildSessions(Listed(stored))
    \/ ReplaySession
    \/ ResetRatings
    \/ Return
    \/ \E s \in SessionIds : DeleteSession(s)
    \/ \E p \in Players, g \in Games : ResetRating(p, g)

SpecReset == Init /\ [][NextReset]_vars

\* Rating.update(session), called on its own for a stored session: the
\* single-session rating path. db0 keeps the tables as they were before
\* the call.
RateSession(s) ==
    /\ pc = "idle"
    /\ s \in stored
    /\ LET raised == \E p \in players(s) : DataError(rating, p, game_of(s))
           db == update([perf |-> perf, rating |-> rating], s)
       IN  /\ perf' = IF raised THEN perf ELSE db.perf
           /\ rating' = IF raised THEN rating ELSE db.rating
           /\ op' = [NoOp EXCEPT !.name = "update", !.session = s,
                                 !.result = IF raised THEN Raised ELSE NoRow]
    /\ db0' = [perf |-> perf, rating |-> rating]
    /\ UNCHANGED <<session, game, backup, bypass_admin, pc, queue, to_reset,
                   backedup, rlog, scope, replayed, outcome, after_full, fs, other>>

\* Sessions are rated one at a time, in any order and again, between
\* rebuilds of one session.
NextUpdate ==
    \/ \E s \in SessionIds : RateSession(s)
    \/ \E s \in SessionIds : RebuildSessions(<<s>>)
    \/ ReplaySession
    \/ ResetRatings
    \/ Return

SpecUpdate == Init /\ [][NextUpdate]_vars

\* Session.clean(self): it returns at its first statement (`For now bypass
\* the clean to do a test`), so it raises no ValidationError and leaves
\* self.date_time as submitted.
ValidationError == [raised |-> "ValidationError"]
clean(self) == [date_time |-> self.date_time, raised |-> "None"]

\* The rank rows that a form submits for session i: those of Ranks, or two
\* players ranked 2 and 3, or ranked 1 and 3, or player 1 alone.
SubmittedRanks(i, team_play) ==
    LET o1 == 2 + ((i - 1) % (NumPlayers - 1))
    IN  {Ranks(i, team_play),
         {[players |-> {1}, rank |-> 2], [players |-> {o1}, rank |-> 3]},
         {[players |-> {1}, rank |-> 1], [players |-> {o1}, rank |-> 3]},
         {[players |-> {1}, rank |-> 1]}}

\* Session s is submitted again through its form, as self: Session.clean is
\* called on it and, unless it raises, the session is saved with its ranks
\* and a Performance for each of its players.
SubmitSession(s, self) ==
    /\ pc = "idle"
    /\ LET cleaned == clean(self)
           saved == [self EXCEPT !.date_time = cleaned.date_time]
           ps == UNION {r.players : r \in self.ranks}
       IN  IF cleaned = ValidationError
           THEN /\ op' = [NoOp EXCEPT !.name = "clean", !.session = s,
                                      !.result = ValidationError]
                /\ UNCHANGED <<session, perf, db0>>
           ELSE /\ op' = [NoOp EXCEPT !.name = "clean", !.session = s]
                /\ session' = [session EXCEPT ![s] = saved]
                /\ perf' = [k \in {k \in DOMAIN perf : k[1] # s} \cup ({s} \X ps) |->
                               IF k \in DOMAIN perf THEN perf[k] ELSE DefaultPerformance]
                /\ db0' = [perf |-> perf', rating |-> rating]
    /\ UNCHANGED <<game, rating, backup, bypass_admin, pc, queue, to_reset, backedup,
                   rlog, scope, replayed, outcome, after_full, fs, other>>

\* Submissions of the last session with any game, time, play mode and
\* ranks, and of the other sessions with any time.
NextClean ==
    \/ \E g \in Games, t \in Times, team_play \in BOOLEAN :
          \E ranks \in SubmittedRanks(NumSessions, team_play) :
              SubmitSession(NumSessions, [game |-> g, date_time |-> t,
                                          team_play |-> team_play, ranks |-> ranks])
    \/ \E s \in SessionIds \ {NumSessions}, t \in Times :
          SubmitSession(s, [session[s] EXCEPT !.date_time = t])

\* The games as in GameTable, or with a last game that supports no team
\* play (the default of Game.team_play) and has no team session.
InitClean ==
    /\ \E t \in SessionTables :
          session = [i \in SessionIds |->
                        [game |-> t[i].game, date_time |-> t[i].date_time,
                         team_play |-> t[i].team_play,
                         ranks |-> Ranks(i, t[i].team_play)]]
    /\ NoClash
    /\ perf = [k \in {k \in SessionIds \X Players : Involves(k[1], k[2])} |->
                  DefaultPerformance]
    /\ game \in {GameTable, [GameTable EXCEPT ![NumGames].team_play = FALSE]}
    /\ \A s \in SessionIds : session[s].team_play => game[game_of(s)].team_play
    /\ rating = NoTables
    /\ backup = NoTables
    /\ bypass_admin = FALSE
    /\ pc = "idle"
    /\ queue = <<>>
    /\ to_reset = {}
    /\ backedup = {}
    /\ rlog = "none"
    /\ scope = [Game |-> None, From |-> None, Sessions |-> <<>>]
    /\ replayed = <<>>
    /\ db0 = [perf |-> perf, rating |-> rating]
    /\ outcome = "none"
    /\ after_full = FALSE
    /\ fs = NoTraversal
    /\ other = NoOther
    /\ op = NoOp

SpecClean == InitClean /\ [][NextClean]_vars

\* Game.last_performances(asat=asat) of game g, before its order_by: for
\* each player, the Performance of the player's latest session of the game
\* at or before asat, as the pair of the player and its trueskill_eta_after.
last_performances(g, asat) ==
    {<<k[2], perf[k].trueskill_eta_after>> : k \in
        {k \in DOMAIN perf :
            /\ game_of(k[1]) = g
            /\ date_time(k[1]) <= asat
            /\ \A x \in DOMAIN perf :
                  (x[2] = k[2] /\ game_of(x[1]) = g /\ date_time(x[1]) <= asat)
                      => date_time(x[1]) <= date_time(k[1])}}

\* Rating.objects.filter(game=g), before its order_by: the pair of the
\* player and the trueskill_eta of each Rating of the game.
ratings_of(g) ==
    {<<p, rating[<<p, g>>].trueskill_eta>> : p \in {p \in Players : rating[<<p, g>>] # NoRow}}

\* A queryset .order_by('-trueskill_eta') or .order_by('-trueskill_eta_after')
\* over the entries E: any listing of E by descending eta; the database
\* orders the entries of equal eta.
order_by_eta(E) ==
    {q \in Perms(E) : \A i, j \in DOMAIN q : i < j => q[i][2] >= q[j][2]}

\* Game.leaderboard(asat=asat) of game g with no leagues: the list of player
\* tuples, built from the Ratings, or from the last Performances when asat is
\* given.
Leaderboard(g, asat) ==
    /\ pc = "idle"
    /\ \E lb \in order_by_eta(IF asat # None THEN last_performances(g, asat)
                               ELSE ratings_of(g)) :
          op' = [NoOp EXCEPT !.name = "leaderboard", !.game = g, !.asat = asat,
                            !.result = lb]
    /\ UNCHANGED <<session, game, perf, rating, backup, bypass_admin, pc, queue, to_reset,
                   backedup, rlog, scope, replayed, db0, outcome, after_full, fs, other>>

\* Rebuilds of all the sessions, and leaderboards between them.
NextBoard ==
    \/ RebuildAll
    \/ ReplaySession
    \/ ResetRatings
    \/ Return
    \/ \E g \in Games, asat \in Times \cup {None} : Leaderboard(g, asat)

SpecBoard == Init /\ [][NextBoard]_vars

\* --------------------------------------------- the neighbours of a session
\* Session.following_sessions(player): includes the session itself.
following_sessions(s, p) ==
    {x \in SessionIds : /\ date_time(x) >= date_time(s)
                        /\ game_of(x) = game_of(s)
                        /\ Involves(x, p)}

\* A queryset .order_by('-date_time') over the sessions S: any listing of S
\* in descending date_time.
order_by_date_time_descending(S) ==
    {q \in Perms(S) : \A i, j \in DOMAIN q : i < j => date_time(q[i]) >= date_time(q[j])}

\* What previous_session and following_session give their caller: a session
\* or None, or an AssertionError.
AssertionError == [session |-> None, raised |-> "AssertionError"]
Returned(x) == [session |-> x, raised |-> "None"]

\* Session.previous_session(player), given the list of previous_sessions:
\* None when the list is the session alone, else prev_sessions[1], under
\* the assertions that the session heads the list and that prev_sessions[1]
\* is earlier.
prev_session(prev_sessions, s) ==
    IF Len(prev_sessions) < 2
    THEN IF Len(prev_sessions) = 1 /\ prev_sessions[1] = s
         THEN Returned(None) ELSE AssertionError
    ELSE IF prev_sessions[1] = s /\ date_time(prev_sessions[2]) < date_time(s)
         THEN Returned(prev_sessions[2]) ELSE AssertionError

\* Session.following_session(player), given the list of following_sessions:
\* None when the list is the session alone, else foll_sessions[1], under
\* the assertions that the head of the list has the time of the session and
\* that foll_sessions[1] is later.
foll_session(foll_sessions, s) ==
    IF Len(foll_sessions) < 2
    THEN IF Len(foll_sessions) = 1 /\ foll_sessions[1] = s
         THEN Returned(None) ELSE AssertionError
    ELSE IF /\ date_time(foll_sessions[1]) = date_time(s)
            /\ date_time(foll_sessions[2]) > date_time(s)
         THEN Returned(foll_sessions[2]) ELSE AssertionError

\* session.previous_session(player) for a player of session s.
PreviousSession(s, p) ==
    /\ pc = "idle"
    /\ Involves(s, p)
    /\ \E prev_sessions \in order_by_date_time_descending(previous_sessions(s, p)) :
          op' = [NoOp EXCEPT !.name = "previous_session", !.session = s, !.player = p,
                            !.result = prev_session(prev_sessions, s)]
    /\ UNCHANGED <<session, game, perf, rating, backup, bypass_admin, pc, queue, to_reset,
                   backedup, rlog, scope, replayed, db0, outcome, after_full, fs, other>>

\* session.following_session(player) for a player of session s.
FollowingSession(s, p) ==
    /\ pc = "idle"
    /\ Involves(s, p)
    /\ \E foll_sessions \in order_by_date_time(following_sessions(s, p)) :
          op' = [NoOp EXCEPT !.name = "following_session", !.session = s, !.player = p,
                            !.result = foll_session(foll_sessions, s)]
    /\ UNCHANGED <<session, game, perf, rating, backup, bypass_admin, pc, queue, to_reset,
                   backedup, rlog, scope, replayed, db0, outcome, after_full, fs, other>>

\* Sessions are submitted again with any time, and asked for their
\* neighbours.
NextNeighbours ==
    \/ \E s \in SessionIds, t \in Times :
          SubmitSession(s, [session[s] EXCEPT !.date_time = t])
    \/ \E s \in SessionIds, p \in Players : PreviousSession(s, p)
    \/ \E s \in SessionIds, p \in Players : FollowingSession(s, p)

SpecNeighbours == Init /\ [][NextNeighbours]_vars

\* ------------------------------------------------- the ranks of a session
\* rank_values after rank_values.sort(): the rank of every Rank row of the
\* session, in ascending order.
RECURSIVE rank_values(_)
rank_values(rows) ==
    IF rows = {} THEN <<>>
    ELSE LET r == CHOOSE x \in rows : \A y \in rows : x.rank <= y.rank
         IN  <<r.rank>> \o rank_values(rows \ {r})

\* rank_values.count(rank)
count(values, value) == Cardinality({i \in DOMAIN values : values[i] = value})

\* (variant) the expectation is left as it is when a rank is moved
expected_unmoved(values, value, expected) ==
    IF value = expected THEN expected + 1 ELSE expected

\* The update of expected in the loop of Session.clean_ranks that builds the
\* rank map: expected += 1 when the rank is the expected one, else
\* expected += rank_values.count(rank).
next_expected(values, value, expected) ==
    IF value = expected THEN expected + 1 ELSE expected + count(values, value)

\* The loop of Session.clean_ranks that builds rank_map, from the i-th of the
\* sorted values on: a rank not yet in the map is mapped to the expected
\* value (to itself when it is the expected value).
RECURSIVE build_rank_map(_, _, _, _)
build_rank_map(values, i, rank_map, expected) ==
    IF i > Len(values) THEN rank_map
    ELSE IF values[i] \in DOMAIN rank_map
         THEN build_rank_map(values, i + 1, rank_map, expected)
         ELSE build_rank_map(values, i + 1, (values[i] :> expected) @@ rank_map,
                             next_expected(values, values[i], expected))

\* Session.clean_ranks on the Rank rows of a session: every row whose rank
\* the map moves is saved with the rank it is mapped to.
clean_ranks(rows) ==
    LET saved(rank_map) == {[r EXCEPT !.rank = rank_map[r.rank]] : r \in rows}
    IN  saved(build_rank_map(rank_values(rows), 1, [x \in {} |-> 0], 1))

\* (variant) ranks must be strictly sequential
consecutive_strictly(value, last_rank_val, skip) ==
    value = last_rank_val \/ value = last_rank_val + 1

\* The condition asserted for each rank in the loop of
\* Session.check_integrity (Ranks must be consecutive).
consecutive(value, last_rank_val, skip) ==
    \/ value = last_rank_val
    \/ value = last_rank_val + 1
    \/ value = last_rank_val + 1 + skip

\* The loop of Session.check_integrity over the sorted rank values, from the
\* i-th on: no assertion fails.
RECURSIVE ranks_contiguous(_, _, _, _)
ranks_contiguous(values, i, last_rank_val, skip) ==
    IF i > Len(values) THEN TRUE
    ELSE /\ consecutive(values[i], last_rank_val, skip)
         /\ IF values[i] = last_rank_val
            THEN ranks_contiguous(values, i + 1, last_rank_val, skip + 1)
            ELSE ranks_contiguous(values, i + 1, values[i], 0)

\* Session.check_integrity on the Rank rows of a session, as far as the rank
\* values go: whether the session has a victor, and whether the ranks are
\* contiguous.
check_integrity(rows) ==
    [victor |-> \E r \in rows : r.rank = 1,
     contiguous |-> ranks_contiguous(rank_values(rows), 1, 0, 0)]

\* session.clean_ranks() of session s; op keeps the ranks as submitted.
CleanRanks(s) ==
    /\ pc = "idle"
    /\ session' = [session EXCEPT ![s].ranks = clean_ranks(@)]
    /\ op' = [NoOp EXCEPT !.name = "clean_ranks", !.session = s,
                          !.result = session[s].ranks]
    /\ UNCHANGED <<game, perf, rating, backup, bypass_admin, pc, queue, to_reset,
                   backedup, rlog, scope, replayed, db0, outcome, after_full, fs, other>>

\* session.check_integrity() of session s; op keeps what it reports of the
\* ranks.
CheckIntegrity(s) ==
    /\ pc = "idle"
    /\ op' = [NoOp EXCEPT !.name = "check_integrity", !.session = s,
                          !.result = check_integrity(session[s].ranks)]
    /\ UNCHANGED <<session, game, perf, rating, backup, bypass_admin, pc, queue, to_reset,
                   backedup, rlog, scope, replayed, db0, outcome, after_full, fs, other>>

\* The values that a rank may be submitted with: Rank.rank is a
\* PositiveIntegerField, which holds 0 too.
RankValues == 0..NumPlayers

\* The Rank rows of an individual session of the first n players, with any
\* rank values.
SubmittedRankRows ==
    UNION {{{[players |-> {p}, rank |-> v[p]] : p \in 1..n} : v \in [1..n -> RankValues]} :
              n \in 2..NumPlayers}

\* The tables after the sessions are imported, with the first session's
\* ranks as they were submitted.
InitRanks ==
    /\ \E rows \in SubmittedRankRows :
          session = [i \in SessionIds |->
                        [game |-> 1, date_time |-> i, team_play |-> (i > 1 /\ i % 2 = 0),
                         ranks |-> IF i = 1 THEN rows ELSE Ranks(i, i % 2 = 0)]]
    /\ perf = [k \in {k \in SessionIds \X Players : Involves(k[1], k[2])} |->
                  DefaultPerformance]
    /\ game = GameTable
    /\ rating = NoTables
    /\ backup = NoTables
    /\ bypass_admin = FALSE
    /\ pc = "idle"
    /\ queue = <<>>
    /\ to_reset = {}
    /\ backedup = {}
    /\ rlog = "none"
    /\ scope = [Game |-> None, From |-> None, Sessions |-> <<>>]
    /\ replayed = <<>>
    /\ db0 = [perf |-> perf, rating |-> rating]
    /\ outcome = "none"
    /\ after_full = FALSE
    /\ fs = NoTraversal
    /\ other = NoOther
    /\ op = NoOp

\* The ranks of the sessions are cleaned and checked.
NextRanks ==
    \/ \E s \in SessionIds : CleanRanks(s)
    \/ \E s \in SessionIds : CheckIntegrity(s)

SpecRanks == InitRanks /\ [][NextRanks]_vars

\* The names of the six settings that a Rating records.
SettingNames == {"mu0", "sigma0", "delta", "beta", "tau", "p"}

\* A Rating of game g as Rating.update saves it after a first session at
\* time 1, under the settings now in place.
played(g) ==
    [create(g) EXCEPT !.plays = 1, !.last_play = 1,
                      !.trueskill_mu = mu0 + 1, !.trueskill_sigma = sigma0 - 1,
                      !.trueskill_eta = Eta(mu0 + 1, sigma0 - 1)]

\* The Ratings of game g that can be stored for a player: none, one saved
\* under the settings now in place, or one saved before one of the six
\* settings was changed.
StoredRatings(g) ==
    {NoRow, played(g)} \cup {[played(g) EXCEPT !.trueskill[f] = @ + 1] : f \in SettingNames}

\* The tables for the calls of Rating.get: players 1 and 2 may have a Rating
\* of game 1 stored.
InitGet ==
    /\ \E t \in SessionTables :
          session = [i \in SessionIds |->
                        [game |-> t[i].game, date_time |-> t[i].date_time,
                         team_play |-> t[i].team_play,
                         ranks |-> Ranks(i, t[i].team_play)]]
    /\ NoClash
    /\ perf = [k \in {k \in SessionIds \X Players : Involves(k[1], k[2])} |->
                  DefaultPerformance]
    /\ game = GameTable
    /\ \E r1, r2 \in StoredRatings(1) :
          rating = [k \in Players \X Games |->
                       IF k = <<1, 1>> THEN r1 ELSE IF k = <<2, 1>> THEN r2 ELSE NoRow]
    /\ backup = NoTables
    /\ bypass_admin = FALSE
    /\ pc = "idle"
    /\ queue = <<>>
    /\ to_reset = {}
    /\ backedup = {}
    /\ rlog = "none"
    /\ scope = [Game |-> None, From |-> None, Sessions |-> <<>>]
    /\ replayed = <<>>
    /\ db0 = [perf |-> perf, rating |-> rating]
    /\ outcome = "none"
    /\ after_full = FALSE
    /\ fs = NoTraversal
    /\ other = NoOther
    /\ op = NoOp

\* Rating.get(player, game), called on its own.
GetRating(p, g) ==
    /\ pc = "idle"
    /\ op' = [NoOp EXCEPT !.name = "get", !.player = p, !.game = g,
                          !.result = get_or_raise(rating, p, g)]
    /\ UNCHANGED <<session, game, perf, rating, backup, bypass_admin, pc, queue, to_reset,
                   backedup, rlog, scope, replayed, db0, outcome, after_full, fs, other>>

\* Calls of Rating.get and edits of the games.
NextGet ==
    \/ \E p \in Players, g \in Games : GetRating(p, g)
    \/ \E g \in Games : EditGame(g)

SpecGet == InitGet /\ [][NextGet]_vars

\* The Rank rows of session i for the traversals: two players ranked 1 and
\* 2, players i and i + 1 so that each session shares a player with the
\* next, or for the last session, players 1 and i so that it shares one with
\* the first too.
ChainRanks(i, closing) ==
    LET a == IF closing THEN 1 ELSE 1 + ((i - 1) % NumPlayers)
        b == IF closing THEN 1 + ((i - 1) % NumPlayers) ELSE 1 + (i % NumPlayers)
    IN  {[players |-> {a}, rank |-> 1], [players |-> {b}, rank |-> 2]}

\* The sessions are played at any time, at the same time as another too.
\* The last is a session of game 1 or of the last game.
ChainTables ==
    {t \in [SessionIds -> [game : Games, date_time : Times, closing : BOOLEAN]] :
        \A i \in SessionIds :
            /\ i < NumSessions => t[i].game = 1 /\ ~t[i].closing
            /\ t[i].game \in {1, NumGames}}

InitFS ==
    /\ \E t \in ChainTables :
          session = [i \in SessionIds |->
                        [game |-> t[i].game, date_time |-> t[i].date_time,
                         team_play |-> FALSE,
                         ranks |-> ChainRanks(i, t[i].closing)]]
    /\ perf = [k \in {k \in SessionIds \X Players : Involves(k[1], k[2])} |->
                  DefaultPerformance]
    /\ game = GameTable
    /\ rating = NoTables
    /\ backup = NoTables
    /\ bypass_admin = FALSE
    /\ pc = "idle"
    /\ queue = <<>>
    /\ to_reset = {}
    /\ backedup = {}
    /\ rlog = "none"
    /\ scope = [Game |-> None, From |-> None, Sessions |-> <<>>]
    /\ replayed = <<>>
    /\ db0 = [perf |-> perf, rating |-> rating]
    /\ outcome = "none"
    /\ after_full = FALSE
    /\ fs = NoTraversal
    /\ other = NoOther
    /\ op = NoOp

\* The players given to Game.future_sessions: none, or one player.
PlayerLists == {{}} \cup {{p} : p \in Players}

NextFS ==
    \/ \E s \in SessionIds : SessionFutureSessions(s)
    \/ \E g \in Games, asat \in Times \cup {NEVER}, ps \in PlayerLists :
          GameFutureSessions(g, asat, ps)
    \/ Call
    \/ ReturnCall
    \/ Finish

SpecFS == InitFS /\ [][NextFS]_vars

\* A traversal runs in one thread, which goes on until it returns or raises.
FairSpecFS == SpecFS /\ WF_vars(NextFS)

\* ======================================================== the properties
FullScope == scope = [Game |-> None, From |-> None, Sessions |-> <<>>]
Completed == pc = "return" /\ outcome = "done"

\* The sessions of the game of s, strictly earlier than s, that p played in,
\* and the latest of them.
Earlier(s, p) ==
    {x \in SessionIds : /\ game_of(x) = game_of(s)
                        /\ date_time(x) < date_time(s)
                        /\ \E r \in session[x].ranks : p \in r.players}
Latest(S) == CHOOSE x \in S : \A y \in S : date_time(y) <= date_time(x)
Won(s, p) == \E r \in session[s].ranks : r.rank = 1 /\ p \in r.players

\* C1: after a full rebuild, the before mu and sigma of every Performance are
\* the after mu and sigma of the Performance of the same player in the latest
\* earlier session of the same game, and mu0 and sigma0 when there is none.
C1_ChainContinuity ==
    (Completed /\ FullScope) =>
        \A k \in DOMAIN perf :
            LET s == k[1]
                p == k[2]
            IN  IF Earlier(s, p) = {}
                THEN /\ perf[k].trueskill_mu_before = mu0
                     /\ perf[k].trueskill_sigma_before = sigma0
                ELSE LET prev == perf[<<Latest(Earlier(s, p)), p>>]
                     IN  /\ perf[k].trueskill_mu_before = prev.trueskill_mu_after
                         /\ perf[k].trueskill_sigma_before = prev.trueskill_sigma_after

\* A full rebuild has completed over a chain of three sessions of one player,
\* whose third Performance starts from a rating that is not the default.
C1_Witness ==
    /\ Completed /\ FullScope
    /\ \E k \in DOMAIN perf :
          /\ Cardinality(Earlier(k[1], k[2])) = 2
          /\ perf[k].trueskill_mu_before # mu0

\* C2: after a rebuild, the Rating of every pair that took part in a replayed
\* session has the after values, the counts and the time of the Performance of
\* the pair's latest session.
C2_RatingIsLatestPerformance ==
    Completed =>
        \A i \in DOMAIN replayed : \A p \in players(replayed[i]) :
            LET g == game_of(replayed[i])
                s == Latest({x \in SessionIds : game_of(x) = g
                                /\ \E r \in session[x].ranks : p \in r.players})
                r == rating[<<p, g>>]
            IN  /\ r # NoRow
                /\ r.trueskill_mu = perf[<<s, p>>].trueskill_mu_after
                /\ r.trueskill_sigma = perf[<<s, p>>].trueskill_sigma_after
                /\ r.trueskill_eta = perf[<<s, p>>].trueskill_eta_after
                /\ r.plays = perf[<<s, p>>].play_number
                /\ r.victories = perf[<<s, p>>].victory_count
                /\ r.last_play = date_time(s)

\* A rebuild has completed that replayed a session of a player without
\* replaying the later session of that player.
C2_Witness ==
    /\ Completed
    /\ \E i \in DOMAIN replayed : \E p \in players(replayed[i]) : \E x \in SessionIds :
          /\ game_of(x) = game_of(replayed[i])
          /\ p \in players(x)
          /\ date_time(x) > date_time(replayed[i])
          /\ x \notin Range(replayed)

\* C3: a full rebuild that follows a full rebuild leaves the Performance and
\* Rating tables as it found them.
C3_IdempotentRebuild ==
    (Completed /\ FullScope /\ after_full) =>
        /\ perf = db0.perf
        /\ rating = db0.rating

\* The second of two full rebuilds in a row has completed, over ratings that
\* have moved away from the defaults.
C3_Witness ==
    /\ Completed /\ FullScope /\ after_full
    /\ \E k \in DOMAIN perf : perf[k].trueskill_mu_after # mu0

\* The least of the times of the sessions of the list L.
MinTime(L) ==
    CHOOSE t \in {date_time(x) : x \in Range(L)} :
        \A x \in Range(L) : t <= date_time(x)

\* The list of sessions of the rebuild is all the sessions of one game from
\* the time of its earliest session on.
WholeTail(L) ==
    LET G == game_of(L[1])
    IN  /\ \A i \in DOMAIN L : game_of(L[i]) = G
        /\ Range(L) = {s \in SessionIds : game_of(s) = G /\ date_time(s) >= MinTime(L)}

\* C4: a rebuild of the list L of all the sessions of a game G from a time on
\* leaves the tables that a rebuild of G from the least time of L leaves,
\* started on the same tables.
C4_ListEqualsGameFrom ==
    (Completed /\ scope.Sessions # <<>> /\ WholeTail(scope.Sessions)) =>
        LET L == scope.Sessions
        IN  \A q \in resolve(game_of(L[1]), MinTime(L), <<>>) :
                rebuilt(db0, q) = [perf |-> perf, rating |-> rating]

\* Such a rebuild has completed for a list that was not passed in the order of
\* time.
C4_Witness ==
    /\ Completed /\ scope.Sessions # <<>> /\ WholeTail(scope.Sessions)
    /\ \E i, j \in DOMAIN scope.Sessions :
          i < j /\ date_time(scope.Sessions[i]) > date_time(scope.Sessions[j])
    /\ perf # db0.perf

\* C5: a rebuild of game G from time T (with no list of sessions) replays
\* the sessions of G at or after T, each once, and at no point changes a
\* Performance or Rating row of another game.
C5_GameFromScope ==
    (scope.Game # None /\ scope.From # None /\ scope.Sessions = <<>> /\ pc # "idle") =>
        /\ pc = "return" =>
              /\ Range(replayed) = {s \in SessionIds : game_of(s) = scope.Game
                                                       /\ date_time(s) >= scope.From}
              /\ Len(replayed) = Cardinality(Range(replayed))
        /\ \A k \in DOMAIN perf : game_of(k[1]) # scope.Game => perf[k] = db0.perf[k]
        /\ \A k \in DOMAIN rating : k[2] # scope.Game => rating[k] = db0.rating[k]

\* A rebuild of a game from the time of one of its sessions, that has an
\* earlier session, has completed while another game had Ratings.
C5_Witness ==
    /\ Completed /\ scope.Game # None /\ scope.From # None
    /\ \E s \in Range(replayed) : date_time(s) = scope.From
    /\ \E x \in SessionIds : game_of(x) = scope.Game /\ date_time(x) < scope.From
    /\ \E k \in DOMAIN rating : k[2] # scope.Game /\ rating[k] # NoRow

\* C6: after a full rebuild, play_number is the number of the session in the
\* player's chain, and victory_count is one more than on the previous
\* Performance of the chain when the player or the player's team is ranked 1,
\* and the same otherwise, counting from 0.
C6_PlayAndVictoryCounts ==
    (Completed /\ FullScope) =>
        \A k \in DOMAIN perf :
            LET s == k[1]
                p == k[2]
                won == IF Won(s, p) THEN 1 ELSE 0
            IN  IF Earlier(s, p) = {}
                THEN /\ perf[k].play_number = 1
                     /\ perf[k].victory_count = won
                ELSE LET prev == perf[<<Latest(Earlier(s, p)), p>>]
                     IN  /\ perf[k].play_number = prev.play_number + 1
                         /\ perf[k].victory_count = prev.victory_count + won

\* A full rebuild has completed over a chain in which a player wins, then
\* loses, then wins.
C6_Witness ==
    /\ Completed /\ FullScope
    /\ \E k \in DOMAIN perf :
          /\ perf[k].play_number = 3 /\ perf[k].victory_count = 2
          /\ ~Won(Latest(Earlier(k[1], k[2])), k[2])

\* C9: a rebuild never replays a session before a session of its scope that
\* has a strictly earlier time.
C9_ReplayInTimeOrder ==
    /\ \A i, j \in DOMAIN replayed :
          i < j => date_time(replayed[i]) <= date_time(replayed[j])
    /\ pc = "replay" =>
          \A i \in DOMAIN replayed, j \in DOMAIN queue :
              date_time(replayed[i]) <= date_time(queue[j])

\* A rebuild has replayed a list of sessions that was passed later session
\* first.
C9_Witness ==
    /\ Completed
    /\ Len(scope.Sessions) >= 2
    /\ date_time(scope.Sessions[1]) > date_time(scope.Sessions[2])
    /\ Range(replayed) = Range(scope.Sessions)

\* C10 as stated: no step of the replay loop changes a Rating row.
C10_NoRatingWriteInReplay ==
    [][(pc = "replay" /\ queue # <<>>) => rating' = rating]_vars

\* C10, amended: a Rating row changes in the re-materialization step, where
\* it is a row of ratings_to_reset, or in a step of the replay loop, where
\* it is the row of a player of the session replayed whose Rating has no
\* later last_play than the session; it changes in no other step.
C10_RatingWriteOnlyWhenLatest ==
    [][\A k \in DOMAIN rating :
          rating'[k] # rating[k] =>
              /\ pc = "replay"
              /\ IF queue = <<>>
                 THEN k \in to_reset
                 ELSE LET s == Head(queue)
                      IN  /\ k[2] = game_of(s)
                          /\ \E r \in session[s].ranks : k[1] \in r.players
                          /\ rating[k] # NoRow => rating[k].last_play <= date_time(s)]_vars

\* The replay loop has replayed a session without changing the Rating of one
\* of its players, which has a later last_play, after changing the Rating
\* of a player in an earlier pass.
C10_Witness ==
    /\ pc = "replay"
    /\ replayed # <<>>
    /\ rating # db0.rating
    /\ \E p \in players(replayed[Len(replayed)]) :
          LET k == <<p, game_of(replayed[Len(replayed)])>>
          IN  /\ rating[k] # NoRow
              /\ rating[k].last_play > date_time(replayed[Len(replayed)])

\* C11: a rebuild called with a list of sessions and a game or a time fails
\* at once, and leaves the RebuildLog, BackupRating, Performance and Rating
\* tables as they were.
C11_ConflictingScopeRejected ==
    [][(pc = "idle" /\ pc' # "idle" /\ scope'.Sessions # <<>>
            /\ (scope'.Game # None \/ scope'.From # None)) =>
          /\ pc' = "return" /\ outcome' = "failed"
          /\ rlog' = rlog
          /\ backup' = backup
          /\ perf' = perf
          /\ rating' = rating]_vars

\* Such a call has failed on tables that an earlier rebuild had filled.
C11_Witness ==
    /\ pc = "return" /\ outcome = "failed"
    /\ scope.Sessions # <<>> /\ scope.Game # None /\ scope.From = None
    /\ rating # NoTables /\ backup # NoTables

\* C12: a rebuild that fails at a session of the replay loop (the session
\* at the head of the queue it leaves) leaves the Performance and Rating
\* tables as they were when it started, and no RebuildLog row.
C12_FailedReplayRollsBack ==
    (pc = "return" /\ outcome = "failed" /\ queue # <<>>) =>
        /\ perf = db0.perf
        /\ rating = db0.rating
        /\ rlog = "none"

\* C13: a rebuild in its replay loop runs alone: no other invocation of
\* Rating.rebuild is in its own replay loop, and the BackupRating rows the
\* rebuild has cloned stay as it cloned them.
C13_RebuildsDoNotInterleave ==
    [][(pc = "replay" /\ pc' = "replay") =>
          /\ other'.pc # "replay"
          /\ \A k \in backedup : backup'[k] = backup[k]]_vars

\* C14: after Rating.reset() and save(), the Rating of a player with no
\* session of the game has the values of a new Rating, and the Rating of a
\* player with a session of the game has the after values, the play number
\* and the victory count of the Performance of the player's last session of
\* the game, and the time of that session.
C14_ResetFromLastPerformance ==
    op.name = "reset" =>
        LET r == rating[<<op.player, op.game>>]
            S == {s \in SessionIds : game_of(s) = op.game /\ Involves(s, op.player)}
        IN  IF S = {}
            THEN /\ r.trueskill_mu = mu0 /\ r.trueskill_sigma = sigma0
                 /\ r.plays = 0 /\ r.victories = 0
                 /\ r.last_play = NEVER /\ r.last_victory = NEVER
            ELSE \E s \in S :
                    /\ \A x \in S : date_time(x) <= date_time(s)
                    /\ r.trueskill_mu = perf[<<s, op.player>>].trueskill_mu_after
                    /\ r.trueskill_sigma = perf[<<s, op.player>>].trueskill_sigma_after
                    /\ r.plays = perf[<<s, op.player>>].play_number
                    /\ r.victories = perf[<<s, op.player>>].victory_count
                    /\ r.last_play = date_time(s)

\* C15: Rating.get raises DataError when a Rating is stored for the pair and
\* one of its six recorded settings is not the one in place; it returns a
\* new Rating with mu0, sigma0 and no plays when none is stored; it returns
\* the stored Rating as it is when all six settings are those in place.
C15_GetChecksSettings ==
    op.name = "get" =>
        LET r == rating[<<op.player, op.game>>]
        IN  IF r = NoRow
            THEN /\ op.result # Raised
                 /\ op.result.trueskill_mu = mu0 /\ op.result.trueskill_sigma = sigma0
                 /\ op.result.plays = 0
            ELSE IF \E f \in SettingNames : r.trueskill[f] # TrueskillSettings(op.game)[f]
            THEN op.result = Raised
            ELSE op.result = r

\* Rating.get has raised for a Rating whose recorded trueskill_p alone is not
\* the one in place.
C15_Witness ==
    /\ op.name = "get" /\ op.result = Raised
    /\ LET r == rating[<<op.player, op.game>>]
       IN  /\ r # NoRow
           /\ r.trueskill.p # game[op.game].trueskill_p
           /\ \A f \in SettingNames \ {"p"} : r.trueskill[f] = TrueskillSettings(op.game)[f]

\* C16 as stated: Rating.update of a session that is not the latest session
\* of its game for one of its players changes no Rating row.
C16_NoRatingWriteUnlessLatestForAll ==
    op.name = "update" =>
        ((\E p \in players(op.session), x \in SessionIds :
             /\ game_of(x) = game_of(op.session)
             /\ Involves(x, p)
             /\ date_time(x) > date_time(op.session))
         => rating = db0.rating)

\* C16, amended: Rating.update of a session changes the Rating row of a pair
\* only if the pair is a player of the session and the game of the session,
\* and the Rating stored for the pair before the call, if any, has no later
\* last_play than the session.
C16_RatingWrittenPerPlayer ==
    op.name = "update" =>
        \A k \in DOMAIN rating :
            rating[k] # db0.rating[k] =>
                /\ k[2] = game_of(op.session)
                /\ \E r \in session[op.session].ranks : k[1] \in r.players
                /\ db0.rating[k] # NoRow => db0.rating[k].last_play <= date_time(op.session)

\* Rating.update has left the Rating of one player of the session, which has
\* a later last_play, as it was, and has changed the Rating of another.
C16_Witness ==
    /\ op.name = "update"
    /\ \E p, q \in players(op.session) :
          LET g == game_of(op.session)
          IN  /\ db0.rating[<<p, g>>] # NoRow
              /\ db0.rating[<<p, g>>].last_play > date_time(op.session)
              /\ rating[<<p, g>>] = db0.rating[<<p, g>>]
              /\ rating[<<q, g>>] # db0.rating[<<q, g>>]

\* C17: no two stored sessions of the same game that share a player have
\* the same date_time.
C17_NoCoincidentSessions ==
    \A s, x \in SessionIds :
        (/\ s # x
         /\ game_of(s) = game_of(x)
         /\ \E p \in Players : Involves(s, p) /\ Involves(x, p))
        => date_time(s) # date_time(x)

\* C18: every stored session has a rank 1, ranks without a gap, a number of
\* players that its game allows, and a play mode that its game supports: no
\* other session gets past Session.clean.
C18_StoredSessionsWellFormed ==
    \A s \in SessionIds :
        LET values == {r.rank : r \in session[s].ranks}
            nplayers == Cardinality(UNION {r.players : r \in session[s].ranks})
            g == game[game_of(s)]
        IN  /\ 1 \in values
            /\ \A v \in values : v = 1 \/ v - 1 \in values
            /\ nplayers >= g.min_players /\ nplayers <= g.max_players
            /\ session[s].team_play => g.team_play
            /\ ~session[s].team_play => g.individual_play

\* C19: a leaderboard lists its entries by non-increasing eta, and a second
\* call for the same game and time over the same tables lists them in the
\* same order.
C19_LeaderboardOrder ==
    [][op'.name = "leaderboard" =>
          /\ \A i, j \in DOMAIN op'.result : i < j => op'.result[i][2] >= op'.result[j][2]
          /\ (op.name = "leaderboard" /\ op.game = op'.game /\ op.asat = op'.asat)
                => op'.result = op.result]_vars

\* C20: a rebuild empties BackupRating before its first clone, and when it
\* has completed, BackupRating holds one row for every pair of a player and
\* the game of a replayed session, equal to the Rating that Rating.get gave
\* for the pair before the rebuild, and no other row.
C20_BackupHoldsFirstTouchClones ==
    /\ (pc = "replay" /\ backedup = {}) => backup = NoTables
    /\ (pc = "return" /\ outcome = "done") =>
          \A k \in DOMAIN backup :
              backup[k] = IF \E i \in DOMAIN replayed :
                                 game_of(replayed[i]) = k[2] /\ k[1] \in players(replayed[i])
                          THEN get(db0.rating, k[1], k[2])
                          ELSE NoRow

\* C21: a rebuild of all the sessions, started after a game's beta, tau or p
\* was changed, runs to completion, and every Rating and Performance of a
\* session it replayed records the settings now in place for the game.
C21_RebuildCompletesAfterDrift ==
    (pc = "return" /\ scope.Sessions = <<>>) =>
        /\ outcome = "done"
        /\ \A i \in DOMAIN replayed : \A p \in players(replayed[i]) :
              /\ rating[<<p, game_of(replayed[i])>>].trueskill
                    = TrueskillSettings(game_of(replayed[i]))
              /\ perf[<<replayed[i], p>>].trueskill
                    = TrueskillSettings(game_of(replayed[i]))

\* C22: the list that Session.future_sessions or Game.future_sessions
\* returns is in ascending order of date_time.
C22_FutureSessionsAscending ==
    fs.pc = "done" =>
        \A i, j \in DOMAIN fs.result :
            i < j => date_time(fs.result[i]) <= date_time(fs.result[j])

\* The rank of the ranker ps in the Rank rows.
rank_in(rows, ps) == (CHOOSE r \in rows : r.players = ps).rank

\* C23: clean_ranks leaves every ranker with the tie-gapped rank: 1 plus the
\* number of rankers that were submitted with a strictly lower rank.
C23_CleanRanksTieGapped ==
    op.name = "clean_ranks" =>
        \A r \in op.result :
            rank_in(session[op.session].ranks, r.players)
                = 1 + Cardinality({x \in op.result : x.rank < r.rank})

\* The rank values of the rows include 1, and each is 0, or follows the
\* greatest lower value (0 when there is none) by 1, or by 1 and the number
\* of further rankers tied at it.
RanksWellFormed(rows) ==
    /\ \E r \in rows : r.rank = 1
    /\ \A r \in rows :
          \/ r.rank = 0
          \/ LET lower == {0} \cup {x.rank : x \in {x \in rows : x.rank < r.rank}}
                 prev == CHOOSE v \in lower : \A w \in lower : w <= v
                 tied == Cardinality({x \in rows : x.rank = prev})
                 further == IF prev = 0 THEN tied ELSE tied - 1
             IN  r.rank = prev + 1 \/ r.rank = prev + 1 + further

\* C24: check_integrity reports no failure of the ranks exactly when they
\* include a 1 and are sequential or tie-gapped.
C24_CheckIntegrityRanks ==
    op.name = "check_integrity" =>
        ((op.result.victor /\ op.result.contiguous)
            <=> RanksWellFormed(session[op.session].ranks))

\* check_integrity has passed ranks in which a rank follows a tie with a gap.
C24_Witness ==
    /\ op.name = "check_integrity"
    /\ op.result.victor /\ op.result.contiguous
    /\ \E a, b, c \in session[op.session].ranks :
          a # b /\ a.rank = b.rank /\ c.rank = a.rank + 2

\* C29: clean_ranks applied to the ranks that it produced, from positive
\* ranks submitted, changes no rank.
C29_CleanRanksIdempotent ==
    [][(/\ op.name = "clean_ranks" /\ op'.name = "clean_ranks"
        /\ op'.session = op.session
        /\ \A r \in op.result : r.rank > 0) => session' = session]_vars

\* C30: clean_ranks keeps the order and the ties of the rankers, makes the
\* lowest rank 1, and leaves ranks that check_integrity passes.
C30_CleanRanksKeepsOutcome ==
    op.name = "clean_ranks" =>
        LET cleaned == session[op.session].ranks
        IN  /\ {r.players : r \in cleaned} = {r.players : r \in op.result}
            /\ \A a, b \in op.result :
                  /\ a.rank < b.rank
                        <=> rank_in(cleaned, a.players) < rank_in(cleaned, b.players)
                  /\ a.rank = b.rank
                        <=> rank_in(cleaned, a.players) = rank_in(cleaned, b.players)
            /\ \E r \in cleaned : r.rank = 1
            /\ \A r \in cleaned : r.rank >= 1
            /\ check_integrity(cleaned).contiguous

\* clean_ranks has moved ranks that were submitted with a tie for a place
\* other than the first and a rank beyond the tie.
C30_Witness ==
    /\ op.name = "clean_ranks"
    /\ session[op.session].ranks # op.result
    /\ \E a, b, c \in op.result :
          a # b /\ a.rank = b.rank /\ a.rank > 1 /\ c.rank > a.rank
              /\ rank_in(session[op.session].ranks, c.players) # c.rank

\* C25: previous_session (following_session) of a session for one of its
\* players returns the latest earlier (the earliest later) session of the
\* same game that involves the player, and None when there is none.
C25_NeighbourSessions ==
    op.name \in {"previous_session", "following_session"} =>
        LET s == op.session
            near == {x \in SessionIds :
                        /\ game_of(x) = game_of(s)
                        /\ Involves(x, op.player)
                        /\ IF op.name = "previous_session"
                           THEN date_time(x) < date_time(s)
                           ELSE date_time(x) > date_time(s)}
        IN  /\ op.result.raised = "None"
            /\ IF near = {} THEN op.result.session = None
               ELSE /\ op.result.session \in near
                    /\ \A y \in near :
                          IF op.name = "previous_session"
                          THEN date_time(y) <= date_time(op.result.session)
                          ELSE date_time(y) >= date_time(op.result.session)

\* C26: a rebuild called with an empty list of sessions replays no session
\* and changes no Performance and no Rating.
C26_EmptyListRebuildsNothing ==
    (op.name = "rebuild_sessions" /\ scope.Sessions = <<>>) =>
        /\ replayed = <<>>
        /\ perf = db0.perf
        /\ rating = db0.rating

\* C27: after Rating.update(session) has rated a session that is not earlier
\* than the last play recorded for player P at its game, the Rating of P at
\* that game has last_victory equal to the date_time of the session when P, or
\* the team of P, is ranked 1 in it, and the last_victory it had before (NEVER
\* for a new Rating) when P is not ranked 1.
C27_LastVictoryOfWinner ==
    (op.name = "update" /\ op.result # Raised) =>
        \A p \in players(op.session) :
            LET k == <<p, game_of(op.session)>>
                before == db0.rating[k]
            IN  (before # NoRow => before.last_play <= date_time(op.session)) =>
                    rating[k].last_victory =
                        IF Won(op.session, p) THEN date_time(op.session)
                        ELSE IF before = NoRow THEN NEVER
                        ELSE before.last_victory

\* C28: once a rebuild has returned or failed, the flag that bypasses the
\* admin fields is False.
C28_BypassOnlyDuringRebuild ==
    pc \in {"idle", "return"} => ~bypass_admin

\* Session x is in the future of session s: of the same game, strictly later,
\* with a player of s.
Influences(s, x) ==
    /\ game_of(x) = game_of(s)
    /\ date_time(x) > date_time(s)
    /\ \E p \in Players : Involves(s, p) /\ Involves(x, p)

\* The least set that holds the sessions in the future of s and of each of
\* its own sessions.
RECURSIVE Closure(_, _)
Closure(s, F) ==
    LET more == {x \in SessionIds : Influences(s, x) \/ \E y \in F : Influences(y, x)}
    IN  IF more \subseteq F THEN F ELSE Closure(s, F \cup more)

\* C7: Session.future_sessions of a session S returns no session twice, and
\* returns the sessions of the least set closed under "of the same game,
\* strictly later, with a player in common" from S: never S, never a session
\* of another game.
C7_FutureSessionsIsClosure ==
    (fs.pc = "done" /\ fs.root # None) =>
        /\ \A i, j \in DOMAIN fs.result : i # j => fs.result[i] # fs.result[j]
        /\ Range(fs.result) = Closure(fs.root, {})
        /\ fs.root \notin Range(fs.result)
        /\ \A x \in Range(fs.result) : game_of(x) = game_of(fs.root)

\* Session.future_sessions has returned a session that has no player of S
\* and follows another of the sessions returned.
C7_Witness ==
    /\ fs.pc = "done" /\ fs.root # None
    /\ \E x \in Range(fs.result) : ~Influences(fs.root, x)

\* C8: a traversal of the influence tree that has started returns.
C8_TraversalTerminates ==
    (fs.pc = "running") ~> (fs.pc = "done")

\* Game.future_sessions has returned after calls of _get_future_sessions
\* that found sessions of players it was not given.
C8_Witness ==
    /\ fs.pc = "done" /\ fs.root = None /\ fs.players # {}
    /\ fs.calls >= 2
    /\ \E x \in Range(fs.result) : \A p \in fs.players : ~Involves(x, p)

====
